---- MODULE Spec2Model ----
(***************************************************************************)
(* EcoCollect backend (src/server.js): the request handlers of the         *)
(* express application over the three mongoose collections User, Pickup    *)
(* and Pledge.  Every handler is an async function; it is cut into one     *)
(* step per awaited store operation, and handlers of different requests    *)
(* interleave between those steps.  The synchronous code that follows an   *)
(* await (deriving figures, building the response) belongs to the step of  *)
(* that await.                                                             *)
(*                                                                         *)
(* A store operation can also throw for reasons outside the program (the   *)
(* connection drops).  That fault is injected where a handler has already  *)
(* written something, i.e. at the XP award of the three mutating handlers  *)
(* and at the badge update; the duplicate-key and validation errors of the *)
(* store and the TypeError of the stats handler arise where the code       *)
(* raises them.  The read-only routes login, pickup list, pledge list,     *)
(* leaderboard and health write nothing and are left out.                  *)
(*                                                                         *)
(* lastResp is the answer sent by the step just taken; tally and xp0 are   *)
(* history variables (answers counted per owner, the initial XP of "a").   *)
(***************************************************************************)
EXTENDS Naturals, Sequences, FiniteSets, TLC

\* ------------------------------------------------------------------ bounds
NSlots == 2            \* requests in flight at the same time
MaxRequests == 3       \* requests accepted in one run
MaxMaterials == 1      \* longest materials list of a request body
MaxXP == 600           \* range of XP values the badge rule is tabulated on

\* ------------------------------------------------------------- input sets
Emails == {"a", "b"}
Passwords == {"p1", "p2"}
InitXPs == {150, 190, 490}
NoField == "<absent>"                      \* a field the JSON body lacks
MaterialLabels == <<"plastic", "paper", "glass", "metal">>
MaterialLists == {SubSeq(MaterialLabels, 1, n) : n \in 0..MaxMaterials}
BodyStatuses == {NoField, "Cancelled"}
PickupBodies == [user : Emails \cup {NoField}, materials : MaterialLists,
                 status : BodyStatuses]
PledgeBodies == [user : Emails]
Slots == 1..NSlots
PickupIds == 1..MaxRequests

\* ------------------------------------------------------- policy constants
XpSchedule == 10
XpComplete == 20
StreakComplete == 1
XpPledge == 5
PlasticBusterXp == 100
PaperSaverXp == 200
EcoWarriorXp == 500

VARIABLES users, pickups, pledges, slot, started, lastResp, tally, xp0

vars == <<users, pickups, pledges, slot, started, lastResp, tally, xp0>>

\* ------------------------------------------------------------ store model
Null == [null |-> TRUE]
Idle == [pc |-> "idle"]
NoResp == [kind |-> "none"]

\* bcrypt.hash(password, 10): an opaque digest, never the clear text
Hash(p) == <<"bcrypt", p>>

\* new User({email, password}) with the schema defaults
NewUser(e, h) == [email |-> e, password |-> h, xp |-> 0, streak |-> 0, badges |-> <<>>]

\* position of the first User document with this email, 0 when there is none
UserIndex(us, e) ==
  IF \E i \in 1..Len(us) : us[i].email = e
  THEN CHOOSE i \in 1..Len(us) :
         us[i].email = e /\ \A j \in 1..(i - 1) : us[j].email # e
  ELSE 0

\* User.findOne({email})
FindOneUser(us, e) == IF UserIndex(us, e) = 0 THEN Null ELSE us[UserIndex(us, e)]

\* the unique index on User.email rejects a second document with the email
DuplicateKey(us, e) == \E i \in 1..Len(us) : us[i].email = e

\* a mutation of IncUser: the award is written with $set instead of $inc
IncUserSet(us, e, dxp, dstreak) ==
  IF UserIndex(us, e) = 0 THEN us
  ELSE [us EXCEPT ![UserIndex(us, e)].xp = dxp,
                  ![UserIndex(us, e)].streak = dstreak]

\* User.findOneAndUpdate({email}, {$inc: {xp, streak}}): no match, no change
IncUser(us, e, dxp, dstreak) ==
  IF UserIndex(us, e) = 0 THEN us
  ELSE [us EXCEPT ![UserIndex(us, e)].xp = @ + dxp,
                  ![UserIndex(us, e)].streak = @ + dstreak]

\* a mutation of WriteBadges: the derived badges are pushed onto the stored
\* list instead of replacing it
WriteBadgesAppend(us, e, user, b) ==
  IF UserIndex(us, e) = 0 THEN us
  ELSE [us EXCEPT ![UserIndex(us, e)].badges = @ \o b]

\* a mutation of WriteBadges: the loaded document is written back whole
WriteBadgesWholeDoc(us, e, user, b) ==
  IF UserIndex(us, e) = 0 THEN us
  ELSE [us EXCEPT ![UserIndex(us, e)] = [user EXCEPT !.badges = b]]

\* User.findOneAndUpdate({email}, {badges}): sets the badges path only
WriteBadges(us, e, user, b) ==
  IF UserIndex(us, e) = 0 THEN us
  ELSE [us EXCEPT ![UserIndex(us, e)].badges = b]

\* new Pickup(req.body): every schema path of the body is taken over,
\* status included; a path the body lacks gets the schema default
NewPickup(body) ==
  [user |-> body.user, materials |-> body.materials,
   status |-> IF body.status = NoField THEN "Scheduled" ELSE body.status]

\* Pickup.find({user}) and Pickup.find()
RECURSIVE FindPickups(_, _)
FindPickups(ps, e) ==
  IF ps = <<>> THEN <<>>
  ELSE (IF Head(ps).user = e THEN <<Head(ps)>> ELSE <<>>) \o FindPickups(Tail(ps), e)

\* ------------------------------------------------------ derivation rules
\* let n = 0; pickups.forEach(p => n += p.materials.length)
RECURSIVE CountItems(_)
CountItems(ps) ==
  IF ps = <<>> THEN 0 ELSE Len(Head(ps).materials) + CountItems(Tail(ps))

\* a mutation of MathRound: truncation
MathRoundFloor(num, den) == num \div den

\* Math.round of the non-negative fraction num/den: floor(num/den + 1/2)
MathRound(num, den) == (2 * num + den) \div (2 * den)

\* items * 0.5 is items/2 and (items/2) * 2.5 is 5*items/4, both exact in
\* binary floating point
CarbonOffset(items) == MathRound(5 * items, 4)

\* Math.round(totalWeight * 10) / 10, in tenths of a kilogram
TotalWeightTenths(items) == MathRound(10 * items, 2)

\* a mutation of deriveBadges: strict thresholds
deriveBadgesStrict(xp) ==
  (IF xp > PlasticBusterXp THEN <<"Plastic Buster">> ELSE <<>>)
  \o (IF xp > PaperSaverXp THEN <<"Paper Saver">> ELSE <<>>)
  \o (IF xp > EcoWarriorXp THEN <<"Eco Warrior">> ELSE <<>>)

\* the three pushes of the stats handler
deriveBadges(xp) ==
  (IF xp >= PlasticBusterXp THEN <<"Plastic Buster">> ELSE <<>>)
  \o (IF xp >= PaperSaverXp THEN <<"Paper Saver">> ELSE <<>>)
  \o (IF xp >= EcoWarriorXp THEN <<"Eco Warrior">> ELSE <<>>)

\* badges.join(', ')
RECURSIVE Join(_)
Join(b) ==
  IF b = <<>> THEN ""
  ELSE IF Len(b) = 1 THEN b[1]
  ELSE b[1] \o ", " \o Join(Tail(b))

\* badges.length > 0 ? badges.join(', ') : 'None'
BadgesEarned(b) == IF Len(b) > 0 THEN Join(b) ELSE "None"

\* badges.length > user.badges.length
NeedsBadgeUpdate(derived, stored) == Len(derived) > Len(stored)

\* ------------------------------------------------------------- bookkeeping
\* a request is taken into the lowest free slot
CanStart(s) ==
  /\ slot[s] = Idle
  /\ \A t \in 1..(s - 1) : slot[t] # Idle
  /\ started < MaxRequests

\* history of the answers: successful award-bearing responses per owner
Tally(t, resp) ==
  IF resp.kind = "SchedulePickup" /\ resp.status = 201 /\ resp.owner \in Emails
  THEN [t EXCEPT ![resp.owner].scheduled = @ + 1]
  ELSE IF resp.kind = "CompletePickup" /\ resp.status = 200 /\ resp.owner \in Emails
  THEN [t EXCEPT ![resp.owner].completed = @ + 1]
  ELSE IF resp.kind = "AddPledge" /\ resp.status = 201
  THEN [t EXCEPT ![resp.owner].pledged = @ + 1]
  ELSE t

Answer(resp) == lastResp' = resp /\ tally' = Tally(tally, resp)

ServerError(kind, cause) == [kind |-> kind, status |-> 500, error |-> cause]

Init ==
  /\ \E x \in InitXPs :
       /\ users = <<[NewUser("a", Hash("p1")) EXCEPT !.xp = x]>>
       /\ xp0 = x
  /\ pickups = <<>>
  /\ pledges = <<>>
  /\ slot = [s \in Slots |-> Idle]
  /\ started = 0
  /\ lastResp = NoResp
  /\ tally = [e \in Emails |-> [scheduled |-> 0, completed |-> 0, pledged |-> 0]]

Finish(s, resp) == slot' = [slot EXCEPT ![s] = Idle] /\ Answer(resp)

Continue(s, next) ==
  slot' = [slot EXCEPT ![s] = next] /\ lastResp' = NoResp /\ tally' = tally

\* ----------------------------------------------------- POST /api/register
\* the request arrives and User.findOne({email}) is answered
RegisterFind(s, e, p) ==
  /\ CanStart(s)
  /\ started' = started + 1
  /\ UNCHANGED <<users, pickups, pledges, xp0>>
  /\ \/ /\ FindOneUser(users, e) # Null
        /\ Finish(s, [kind |-> "Register", status |-> 400, email |-> e,
                      message |-> "User already exists"])
     \/ /\ FindOneUser(users, e) = Null
        /\ Continue(s, [pc |-> "reg_save", email |-> e, password |-> p])

\* bcrypt.hash, new User and user.save(); the unique index is checked by
\* the store when the document is written
RegisterSave(s) ==
  /\ slot[s].pc = "reg_save"
  /\ UNCHANGED <<pickups, pledges, started, xp0>>
  /\ \/ /\ DuplicateKey(users, slot[s].email)
        /\ Finish(s, ServerError("Register", "E11000 duplicate key"))
        /\ users' = users
     \/ /\ ~DuplicateKey(users, slot[s].email)
        /\ users' = Append(users, NewUser(slot[s].email, Hash(slot[s].password)))
        /\ Finish(s, [kind |-> "Register", status |-> 201, email |-> slot[s].email,
                      message |-> "User registered successfully"])

\* ------------------------------------------------------ POST /api/pickups
\* new Pickup(req.body) and pickup.save(); user is a required path
SchedulePickupSave(s, body) ==
  /\ CanStart(s)
  /\ started' = started + 1
  /\ UNCHANGED <<users, pledges, xp0>>
  /\ \/ /\ body.user = NoField
        /\ Finish(s, ServerError("SchedulePickup", "ValidationError"))
        /\ pickups' = pickups
     \/ /\ body.user # NoField
        /\ pickups' = Append(pickups, NewPickup(body))
        /\ Continue(s, [pc |-> "sched_award", owner |-> body.user,
                        id |-> Len(pickups) + 1, pickup |-> NewPickup(body)])

\* a mutation of SchedulePickupAward: the saved pickup is removed again when
\* the increment fails
SchedulePickupAwardRollback(s) ==
  /\ slot[s].pc = "sched_award"
  /\ UNCHANGED <<pledges, started, xp0>>
  /\ \/ /\ Finish(s, ServerError("SchedulePickup", "StoreError"))
        /\ pickups' = SubSeq(pickups, 1, slot[s].id - 1)
                      \o SubSeq(pickups, slot[s].id + 1, Len(pickups))
        /\ users' = users
     \/ /\ users' = IncUser(users, slot[s].owner, XpSchedule, 0)
        /\ pickups' = pickups
        /\ Finish(s, [kind |-> "SchedulePickup", status |-> 201,
                      owner |-> slot[s].owner, pickup |-> slot[s].pickup])

\* User.findOneAndUpdate({email: req.body.user}, {$inc: {xp: 10}})
SchedulePickupAward(s) ==
  /\ slot[s].pc = "sched_award"
  /\ UNCHANGED <<pickups, pledges, started, xp0>>
  /\ \/ /\ Finish(s, ServerError("SchedulePickup", "StoreError"))
        /\ users' = users
     \/ /\ users' = IncUser(users, slot[s].owner, XpSchedule, 0)
        /\ Finish(s, [kind |-> "SchedulePickup", status |-> 201,
                      owner |-> slot[s].owner, pickup |-> slot[s].pickup])

\* --------------------------------------------- PUT /api/pickups/:id/complete
\* Pickup.findByIdAndUpdate(id, {status: 'Completed'}, {new: true})
CompletePickupUpdate(s, id) ==
  /\ CanStart(s)
  /\ started' = started + 1
  /\ UNCHANGED <<users, pledges, xp0>>
  /\ \/ /\ id > Len(pickups)
        /\ Finish(s, [kind |-> "CompletePickup", status |-> 404, id |-> id,
                      message |-> "Pickup not found"])
        /\ pickups' = pickups
     \/ /\ id <= Len(pickups)
        /\ pickups' = [pickups EXCEPT ![id].status = "Completed"]
        /\ Continue(s, [pc |-> "comp_award", id |-> id,
                        pickup |-> [pickups[id] EXCEPT !.status = "Completed"]])

\* User.findOneAndUpdate({email: pickup.user}, {$inc: {xp: 20, streak: 1}})
CompletePickupAward(s) ==
  /\ slot[s].pc = "comp_award"
  /\ UNCHANGED <<pickups, pledges, started, xp0>>
  /\ \/ /\ Finish(s, ServerError("CompletePickup", "StoreError"))
        /\ users' = users
     \/ /\ users' = IncUser(users, slot[s].pickup.user, XpComplete, StreakComplete)
        /\ Finish(s, [kind |-> "CompletePickup", status |-> 200, id |-> slot[s].id,
                      owner |-> slot[s].pickup.user, pickup |-> slot[s].pickup])

\* ------------------------------------------------------ POST /api/pledges
\* new Pledge(req.body) and pledge.save()
AddPledgeSave(s, body) ==
  /\ CanStart(s)
  /\ started' = started + 1
  /\ UNCHANGED <<users, pickups, xp0>>
  /\ \/ /\ pledges' = Append(pledges, body)
        /\ Continue(s, [pc |-> "pledge_award", owner |-> body.user,
                        id |-> Len(pledges) + 1])

\* User.findOneAndUpdate({email: req.body.user}, {$inc: {xp: 5}})
AddPledgeAward(s) ==
  /\ slot[s].pc = "pledge_award"
  /\ UNCHANGED <<pickups, pledges, started, xp0>>
  /\ \/ /\ Finish(s, ServerError("AddPledge", "StoreError"))
        /\ users' = users
     \/ /\ users' = IncUser(users, slot[s].owner, XpPledge, 0)
        /\ Finish(s, [kind |-> "AddPledge", status |-> 201, owner |-> slot[s].owner])

\* ------------------------------------------------ GET /api/stats/:userEmail
\* the stats object of the handler, from its locals
StatsResponse(e, user, found, badges) ==
  [kind |-> "GetStats", status |-> 200, email |-> e,
   itemsRecycled |-> CountItems(found),
   totalWeightTenths |-> TotalWeightTenths(CountItems(found)),
   carbonOffset |-> CarbonOffset(CountItems(found)),
   xpEarned |-> user.xp,
   totalPickups |-> Len(found),
   streakDays |-> user.streak,
   badgesEarned |-> BadgesEarned(badges)]

\* User.findOne({email: userEmail})
GetStatsUser(s, e) ==
  /\ CanStart(s)
  /\ started' = started + 1
  /\ UNCHANGED <<users, pickups, pledges, xp0>>
  /\ \/ Continue(s, [pc |-> "stats_pickups", email |-> e,
                     user |-> FindOneUser(users, e)])

\* Pickup.find({user: userEmail}), then the synchronous derivation up to the
\* next await: user.xp of an absent user throws a TypeError into the catch
GetStatsPickups(s) ==
  /\ slot[s].pc = "stats_pickups"
  /\ UNCHANGED <<users, pickups, pledges, started, xp0>>
  /\ \/ /\ slot[s].user = Null
        /\ Finish(s, ServerError("GetStats", "TypeError"))
     \/ /\ slot[s].user # Null
        /\ LET found == FindPickups(pickups, slot[s].email)
               badges == deriveBadges(slot[s].user.xp)
           IN IF NeedsBadgeUpdate(badges, slot[s].user.badges)
              THEN Continue(s, [pc |-> "stats_badges", email |-> slot[s].email,
                                user |-> slot[s].user, found |-> found,
                                badges |-> badges])
              ELSE Finish(s, StatsResponse(slot[s].email, slot[s].user, found, badges))

\* User.findOneAndUpdate({email: userEmail}, {badges: badges})
GetStatsBadges(s) ==
  /\ slot[s].pc = "stats_badges"
  /\ UNCHANGED <<pickups, pledges, started, xp0>>
  /\ \/ /\ Finish(s, ServerError("GetStats", "StoreError"))
        /\ users' = users
     \/ /\ users' = WriteBadges(users, slot[s].email, slot[s].user, slot[s].badges)
        /\ Finish(s, StatsResponse(slot[s].email, slot[s].user, slot[s].found,
                                   slot[s].badges))

\* ------------------------------------------------ GET /api/community/goal
GetCommunityGoal(s) ==
  /\ CanStart(s)
  /\ started' = started + 1
  /\ UNCHANGED <<users, pickups, pledges, xp0>>
  /\ \/ Finish(s, [kind |-> "GetCommunityGoal", status |-> 200,
                   totalCarbon |-> MathRound(5 * CountItems(pickups), 4)])

\* ------------------------------------------------------------ specification
Step(s) ==
  \/ \E e \in Emails, p \in Passwords : RegisterFind(s, e, p)
  \/ RegisterSave(s)
  \/ \E body \in PickupBodies : SchedulePickupSave(s, body)
  \/ SchedulePickupAward(s)
  \/ \E id \in PickupIds : CompletePickupUpdate(s, id)
  \/ CompletePickupAward(s)
  \/ \E body \in PledgeBodies : AddPledgeSave(s, body)
  \/ AddPledgeAward(s)
  \/ \E e \in Emails : GetStatsUser(s, e)
  \/ GetStatsPickups(s)
  \/ GetStatsBadges(s)
  \/ GetCommunityGoal(s)

\* requests interleave at their awaits
Next == \E s \in Slots : Step(s)

Spec == Init /\ [][Next]_vars

\* one request at a time: a handler runs to its answer before the next starts
NextSeq == \E s \in Slots : (\A t \in Slots \ {s} : slot[t] = Idle) /\ Step(s)

SpecSeq == Init /\ [][NextSeq]_vars

\* ================================================================== claims
UserA == FindOneUser(users, "a")
UserAAfter == FindOneUser(users', "a")
Quiescent == \A s \in Slots : slot[s] = Idle

\* the user documents other than e's are the same before and after the step
OthersUntouched(e) ==
  \A o \in Emails \ {e} : FindOneUser(users', o) = FindOneUser(users, o)

AwardedExactly(e, dxp, dstreak) ==
  /\ FindOneUser(users', e) # Null
  /\ FindOneUser(users', e).xp = FindOneUser(users, e).xp + dxp
  /\ FindOneUser(users', e).streak = FindOneUser(users, e).streak + dstreak
  /\ FindOneUser(users', e).badges = FindOneUser(users, e).badges
  /\ OthersUntouched(e)

\* C1: for an existing owner, a SchedulePickup answered 201 adds exactly 10 XP
\* and no streak, an AddPledge answered 201 adds exactly 5 XP and no streak,
\* and a CompletePickup answered 200 adds exactly 20 XP and 1 streak, whether
\* or not the pickup was Completed before; no other user's document changes.
C1_AwardsExact ==
  [][\A e \in Emails :
       FindOneUser(users, e) # Null =>
         /\ (lastResp'.kind = "SchedulePickup" /\ lastResp'.status = 201
             /\ lastResp'.owner = e) => AwardedExactly(e, 10, 0)
         /\ (lastResp'.kind = "AddPledge" /\ lastResp'.status = 201
             /\ lastResp'.owner = e) => AwardedExactly(e, 5, 0)
         /\ (lastResp'.kind = "CompletePickup" /\ lastResp'.status = 200
             /\ lastResp'.owner = e) => AwardedExactly(e, 20, 1)]_vars

\* C1 witness: the one pickup of "a" has been completed a second time and
\* both completions were awarded
C1_Witness ==
  /\ lastResp.kind = "CompletePickup" /\ lastResp.status = 200
  /\ lastResp.owner = "a"
  /\ Len(pickups) = 1
  /\ tally["a"].completed = 2
  /\ UserA.xp = xp0 + 50 /\ UserA.streak = 2

\* C2: whenever no request is in flight, the XP of "a" is its initial value
\* plus 10 per scheduled pickup, 20 per completion and 5 per pledge answered
\* with success, and its streak is the number of completions: no award is
\* lost in any interleaving, and the badge write never touches XP or streak.
C2_NoLostAward ==
  Quiescent =>
    /\ UserA.xp = xp0 + 10 * tally["a"].scheduled + 20 * tally["a"].completed
                      + 5 * tally["a"].pledged
    /\ UserA.streak = tally["a"].completed

\* C2 witness: a GetStats request that read "a" before an award has written
\* its badges after the award, and every request has finished
C2_Witness ==
  /\ Quiescent
  /\ lastResp.kind = "GetStats" /\ lastResp.status = 200 /\ lastResp.email = "a"
  /\ lastResp.xpEarned < UserA.xp
  /\ UserA.badges # <<>>
  /\ tally["a"].scheduled + tally["a"].completed + tally["a"].pledged >= 1

\* C3 (as claimed): a Register request that does not create the record is
\* answered AlreadyExists (400) and leaves the users as they are, a request
\* answered 201 created the record with its own password hash and the
\* defaults, and no email ever has two records.
C3_SecondRegisterAlreadyExists ==
  /\ [][lastResp'.kind = "Register" =>
          \/ /\ lastResp'.status = 201
             /\ ~DuplicateKey(users, lastResp'.email)
             /\ Len(users') = Len(users) + 1
             /\ SubSeq(users', 1, Len(users)) = users
             /\ \E s \in Slots :
                  /\ slot[s].pc = "reg_save" /\ slot'[s] = Idle
                  /\ users'[Len(users')].email = slot[s].email
                  /\ users'[Len(users')].password = Hash(slot[s].password)
             /\ users'[Len(users')].xp = 0 /\ users'[Len(users')].streak = 0
             /\ users'[Len(users')].badges = <<>>
          \/ /\ lastResp'.status = 400
             /\ users' = users]_vars
  /\ [](\A i, j \in 1..Len(users) : users[i].email = users[j].email => i = j)

\* C4 (as claimed): a GetStats request whose user lookup found no record is
\* answered 404 and changes no record.
C4_StatsNotFound ==
  [][\A s \in Slots :
       (slot[s].pc = "stats_pickups" /\ slot[s].user = Null /\ slot'[s] = Idle)
         => /\ lastResp'.status = 404
            /\ UNCHANGED <<users, pickups, pledges>>]_vars

\* C5 (as claimed): every stored pickup is Scheduled or Completed, a new
\* pickup starts as Scheduled, and a Completed pickup stays Completed.
C5_StatusEnumeration ==
  /\ [](\A i \in 1..Len(pickups) : pickups[i].status \in {"Scheduled", "Completed"})
  /\ [][Len(pickups') > Len(pickups) =>
          pickups'[Len(pickups')].status = "Scheduled"]_vars
  /\ [][\A i \in 1..Len(pickups) :
          pickups[i].status = "Completed" => pickups'[i].status = "Completed"]_vars

\* what the reconciliation rule leaves on a user with this XP and these badges
Reconciled(xp, stored) ==
  IF Len(deriveBadges(xp)) > Len(stored) THEN deriveBadges(xp) ELSE stored

Contains(b, label) == \E i \in 1..Len(b) : b[i] = label

\* the badge rule tabulated on 0..MaxXP
BadgeTable ==
  \A x \in 0..MaxXP :
    /\ Contains(deriveBadges(x), "Plastic Buster") <=> x >= 100
    /\ Contains(deriveBadges(x), "Paper Saver") <=> x >= 200
    /\ Contains(deriveBadges(x), "Eco Warrior") <=> x >= 500
    /\ deriveBadges(x) \in
         {<<>>, <<"Plastic Buster">>, <<"Plastic Buster", "Paper Saver">>,
          <<"Plastic Buster", "Paper Saver", "Eco Warrior">>}

\* C7: for every XP the derived badges hold Plastic Buster iff XP >= 100,
\* Paper Saver iff XP >= 200, Eco Warrior iff XP >= 500, in that order, and
\* badgesEarned of a GetStats answer is their ", "-joined labels, or "None",
\* decided by the XP the answer reports alone.
C7_BadgeThresholds ==
  /\ BadgeTable
  /\ (lastResp.kind = "GetStats" /\ lastResp.status = 200) =>
       lastResp.badgesEarned =
         (IF lastResp.xpEarned < 100 THEN "None"
          ELSE IF lastResp.xpEarned < 200 THEN "Plastic Buster"
          ELSE IF lastResp.xpEarned < 500 THEN "Plastic Buster, Paper Saver"
          ELSE "Plastic Buster, Paper Saver, Eco Warrior")

\* C7 witness: a GetStats answer for XP exactly 500 lists the three badges
\* while the user stored fewer before the answer's own write
C7_Witness ==
  /\ lastResp.kind = "GetStats" /\ lastResp.status = 200
  /\ lastResp.xpEarned = 500
  /\ lastResp.badgesEarned = "Plastic Buster, Paper Saver, Eco Warrior"

\* materials of the pickups at the positions in idx, summed
MaterialTotal(idx) ==
  LET f[i \in 0..Len(pickups)] ==
        IF i = 0 THEN 0
        ELSE f[i - 1] + (IF i \in idx THEN Len(pickups[i].materials) ELSE 0)
  IN f[Len(pickups)]

OwnedBy(e) == {i \in 1..Len(pickups) : pickups[i].user = e}

\* c is the integer nearest to num/4, a half going up: c - 1/2 <= num/4 < c + 1/2
NearestQuarter(c, num) == 4 * c <= num + 2 /\ num + 2 < 4 * c + 4

\* C8: with one request at a time, a GetStats answer reports as itemsRecycled
\* the materials of all pickups of that email whatever their status, as
\* totalPickups their number, and as carbonOffset the integer nearest to
\* 5 x itemsRecycled / 4 (a half up); GetCommunityGoal reports the same
\* figure over every stored pickup.
C8_ImpactFigures ==
  /\ (lastResp.kind = "GetStats" /\ lastResp.status = 200) =>
       /\ lastResp.itemsRecycled = MaterialTotal(OwnedBy(lastResp.email))
       /\ lastResp.totalPickups = Cardinality(OwnedBy(lastResp.email))
       /\ NearestQuarter(lastResp.carbonOffset, 5 * lastResp.itemsRecycled)
  /\ (lastResp.kind = "GetCommunityGoal" /\ lastResp.status = 200) =>
       NearestQuarter(lastResp.totalCarbon, 5 * MaterialTotal(1..Len(pickups)))

\* C8 witness: two items of "a" weigh in at 2.5, reported as 3, while the
\* store also holds pickups GetStats must count without regard to status
C8_Witness ==
  /\ lastResp.kind = "GetStats" /\ lastResp.status = 200 /\ lastResp.email = "a"
  /\ lastResp.itemsRecycled = 2 /\ lastResp.carbonOffset = 3
  /\ \E i \in OwnedBy("a") : pickups[i].status # "Scheduled"

\* C9: an award step ends either with the increment applied and a success
\* answer, or with a 500 answer, the users unchanged and the record written
\* before still stored (the pickup or pledge of SchedulePickup / AddPledge,
\* the Completed status of CompletePickup).
C9_NoRollback ==
  [][\A s \in Slots :
       /\ (slot[s].pc = "sched_award" /\ slot'[s] = Idle) =>
            \/ /\ lastResp'.status = 201
               /\ users' = IncUser(users, slot[s].owner, 10, 0)
            \/ /\ lastResp' = ServerError("SchedulePickup", "StoreError")
               /\ users' = users
               /\ slot[s].id \in 1..Len(pickups')
               /\ pickups'[slot[s].id].user = slot[s].owner
               /\ pickups' = pickups
       /\ (slot[s].pc = "pledge_award" /\ slot'[s] = Idle) =>
            \/ /\ lastResp'.status = 201
               /\ users' = IncUser(users, slot[s].owner, 5, 0)
            \/ /\ lastResp' = ServerError("AddPledge", "StoreError")
               /\ users' = users
               /\ slot[s].id \in 1..Len(pledges')
               /\ pledges'[slot[s].id].user = slot[s].owner
               /\ pledges' = pledges
       /\ (slot[s].pc = "comp_award" /\ slot'[s] = Idle) =>
            \/ /\ lastResp'.status = 200
               /\ users' = IncUser(users, slot[s].pickup.user, 20, 1)
            \/ /\ lastResp' = ServerError("CompletePickup", "StoreError")
               /\ users' = users
               /\ pickups'[slot[s].id].status = "Completed"
               /\ pickups' = pickups]_vars

\* C9 witness: SchedulePickup for "a" was answered 500 by its award step, the
\* pickup is stored and "a" has the XP it started with
C9_Witness ==
  /\ lastResp = ServerError("SchedulePickup", "StoreError")
  /\ Len(pickups) = 1 /\ pickups[1].user = "a"
  /\ UserA.xp = xp0
  /\ Quiescent

\* C10 (as claimed): the number of badges stored on "a" never decreases, and
\* the stored list is the list derived from some XP not above the current XP.
C10_BadgesNeverRegress ==
  /\ [][Len(UserAAfter.badges) >= Len(UserA.badges)]_vars
  /\ [](\E x \in 0..UserA.xp : UserA.badges = deriveBadges(x))
====
